---- MODULE Spec2Model ----
(***************************************************************************)
(* svelte-keyed: a writable derived store ("view") over a nested location  *)
(* of a parent store.  The model covers the path tokenizer (getTokens),    *)
(* the nested read (getNested), the prototype preserving shallow clone     *)
(* (clonedWithPrototype) and the view returned by keyed(parent, path).     *)
(*                                                                         *)
(* Strings of the program are sequences of one-character strings, so that  *)
(* the regular expressions and the split of the source can be computed.    *)
(* JavaScript objects live in a heap of addressed objects, so that         *)
(* reference identity, sharing and in-place assignment are visible.        *)
(***************************************************************************)
EXTENDS Integers, Sequences, FiniteSets, TLC

VARIABLES
    heap,         \* Seq of objects; the address of an object is its index
    parentValue,  \* the value held by the parent store (writable)
    subs,         \* the views whose derived store is subscribed to the parent, in order
    parentSub,    \* the value last delivered to the subscriber of the store's owner
    views,        \* view slot -> the view keyed() returned, or its failure
    lastOp,       \* record of the last operation, with the pre-state of a write
    halted,       \* an exception escaped from a store notification
    tokKey,       \* tokenizer harness: the path string handed to getTokens
    tokOut,       \* tokenizer harness: what getTokens returned or threw
    tokCached,    \* tokenizer harness: the shouldCache argument of the call
    tokenCache,   \* the module's cache: path string -> tokens and time of last access
    now,          \* the clock Date.now() reads
    microtasks,   \* the queued jobs that call view.update, in scheduling order
    drain         \* the run of the queued jobs: whether it is on, and what it started from

vars == <<heap, parentValue, subs, parentSub, views, lastOp, halted, tokKey, tokOut,
          tokCached, tokenCache, now, microtasks, drain>>
storeVars == <<heap, parentValue, subs, parentSub, views, lastOp, halted>>
tokVars == <<tokKey, tokOut, tokCached>>
cacheVars == <<tokenCache, now>>
taskVars == <<microtasks, drain>>

----------------------------------------------------------------------------
(* Characters and character classes of the regular expressions *)

LowerSeq == <<"a","b","c","d","e","f","g","h","i","j","k","l","m",
              "n","o","p","q","r","s","t","u","v","w","x","y","z">>
UpperSeq == <<"A","B","C","D","E","F","G","H","I","J","K","L","M",
              "N","O","P","Q","R","S","T","U","V","W","X","Y","Z">>
DigitSeq == <<"0","1","2","3","4","5","6","7","8","9">>

Range(s) == {s[i] : i \in DOMAIN s}

\* \d
IsDigit(c) == c \in Range(DigitSeq)
\* [a-zA-Z]
IsLetter(c) == c \in Range(LowerSeq) \cup Range(UpperSeq)
\* \w  (letters, digits and underscore)
IsWord(c) == IsLetter(c) \/ IsDigit(c) \/ c = "_"

\* the i flag: compare after folding to lower case
ToLower(c) ==
    IF c \in Range(UpperSeq)
    THEN LowerSeq[CHOOSE i \in DOMAIN UpperSeq : UpperSeq[i] = c]
    ELSE c

LowerStr(s) == [i \in DOMAIN s |-> ToLower(s[i])]

\* value of a decimal digit
DigitVal(c) == (CHOOSE i \in DOMAIN DigitSeq : DigitSeq[i] = c) - 1

AllDigits(s) == \A i \in DOMAIN s : IsDigit(s[i])

\* String.prototype.startsWith
StartsWith(s, p) == Len(s) >= Len(p) /\ SubSeq(s, 1, Len(p)) = p

\* pattern.test(s) for a pattern that is a plain substring
Contains(s, p) ==
    \E i \in 1..(Len(s) - Len(p) + 1) : SubSeq(s, i, i + Len(p) - 1) = p

\* the same with the i flag (p is given in lower case)
ContainsCI(s, p) == Contains(LowerStr(s), p)

----------------------------------------------------------------------------
(* Path tokenizer *)

\* the errors of the module, by class and message template
EmptyPathError == [cls |-> "EmptyPathError", text |-> "Path string cannot be empty", arg |-> <<>>]
InvalidPathFormatError(detail) == [cls |-> "InvalidPathFormatError", text |-> detail, arg |-> <<>>]
InvalidPropertyKeyError(key) == [cls |-> "InvalidPropertyKeyError", text |-> "Invalid property key format", arg |-> key]

NoErr == [cls |-> "none", text |-> "", arg |-> <<>>]

Ok(toks) == [ok |-> TRUE, tokens |-> toks, err |-> NoErr]
Throw(e) == [ok |-> FALSE, tokens |-> <<>>, err |-> e]

\* length of the run of digits of s that starts at position j
RECURSIVE DigitRun(_, _)
DigitRun(s, j) ==
    IF j <= Len(s) /\ IsDigit(s[j]) THEN 1 + DigitRun(s, j + 1) ELSE 0

\* /\[[^\d\]]/.test(key): a '[' followed by a character that is neither a
\* digit nor ']'
BadBracket(key) ==
    \E i \in 1..(Len(key) - 1) :
        key[i] = "[" /\ ~IsDigit(key[i + 1]) /\ key[i + 1] # "]"

\* key.replace(/\[(\d+)\]/g, '.$1') from position i on: every '[digits]' is
\* rewritten to '.digits', everything else is copied
RECURSIVE ReplaceFrom(_, _)
ReplaceFrom(s, i) ==
    IF i > Len(s) THEN <<>>
    ELSE LET n == DigitRun(s, i + 1) IN
         IF s[i] = "[" /\ n > 0 /\ i + n + 1 <= Len(s) /\ s[i + n + 1] = "]"
         THEN <<".">> \o SubSeq(s, i + 1, i + n) \o ReplaceFrom(s, i + n + 2)
         ELSE <<s[i]>> \o ReplaceFrom(s, i + 1)

ReplaceBrackets(key) == ReplaceFrom(key, 1)

\* a tokenizer that keeps the leading '.' of a path that starts with an index
StripLeadingDotNever(s) == s

\* if (s.startsWith('.')) s = s.slice(1)
StripLeadingDot(s) == IF StartsWith(s, <<".">>) THEN SubSeq(s, 2, Len(s)) ELSE s

\* s.split('.'): the pieces between the dots, empty pieces included
RECURSIVE SplitFrom(_, _, _)
SplitFrom(s, i, cur) ==
    IF i > Len(s) THEN <<cur>>
    ELSE IF s[i] = "." THEN <<cur>> \o SplitFrom(s, i + 1, <<>>)
    ELSE SplitFrom(s, i + 1, Append(cur, s[i]))

SplitDots(s) == SplitFrom(s, 1, <<>>)

\* the first getTokens of the repository: rewrite, strip, split, no checks
RefGetTokens(key) == SplitDots(StripLeadingDot(ReplaceBrackets(key)))

\* getTokens(key, false): the checks, then rewrite, strip, split, and the
\* check for empty segments
GetTokens(key) ==
    IF key = <<>> THEN Throw(EmptyPathError)
    ELSE IF key = <<".">> \/ key = <<".", ".">>
    THEN Throw(InvalidPathFormatError("Cannot use . or .. as path"))
    ELSE IF Contains(key, <<".", ".">>)
    THEN Throw(InvalidPathFormatError("Cannot have consecutive dots in path"))
    ELSE IF BadBracket(key)
    THEN Throw(InvalidPathFormatError("Array indices must be numeric"))
    ELSE LET tokens == SplitDots(StripLeadingDot(ReplaceBrackets(key))) IN
         IF \E i \in DOMAIN tokens : tokens[i] = <<>>
         THEN Throw(InvalidPathFormatError("Path contains empty segments"))
         ELSE Ok(tokens)

\* the module's constants of the cache
MAX_CACHE_SIZE == 1000
CACHE_TTL == 1000 * 60 * 5

\* new Map(): no path is cached
EmptyCache == [k \in {} |-> [tokens |-> <<>>, lastAccessed |-> 0]]

\* the checks made before the cache is looked at: the error thrown, or none
EarlyError(key) ==
    IF key = <<>> THEN EmptyPathError
    ELSE IF key = <<".">> \/ key = <<".", ".">>
    THEN InvalidPathFormatError("Cannot use . or .. as path")
    ELSE IF Contains(key, <<".", ".">>)
    THEN InvalidPathFormatError("Cannot have consecutive dots in path")
    ELSE IF BadBracket(key)
    THEN InvalidPathFormatError("Array indices must be numeric")
    ELSE NoErr

\* the loop that deletes the expired entries; it runs when more than half
\* of MAX_CACHE_SIZE entries are cached
CleanExpired(cache, clock) ==
    IF 2 * Cardinality(DOMAIN cache) > MAX_CACHE_SIZE
    THEN [k \in {j \in DOMAIN cache : ~(clock - cache[j].lastAccessed > CACHE_TTL)} |-> cache[k]]
    ELSE cache

\* a cache that keeps the first token of a path only
CachePutHead(cache, key, entry) ==
    (key :> [entry EXCEPT !.tokens = <<Head(entry.tokens)>>]) @@ cache

\* tokenCache.set(key, { tokens, lastAccessed })
CachePut(cache, key, entry) == (key :> entry) @@ cache

\* a getTokens that checks only for the empty path and caches what the
\* split gives
getTokensNoFormatChecks(cache, clock, key, shouldCache) ==
    IF key = <<>> THEN [out |-> Throw(EmptyPathError), cache |-> cache]
    ELSE IF shouldCache /\ key \in DOMAIN cache
    THEN [out |-> Ok(cache[key].tokens), cache |-> cache]
    ELSE LET tokens == SplitDots(StripLeadingDot(ReplaceBrackets(key))) IN
         [out |-> Ok(tokens),
          cache |-> IF shouldCache
                    THEN CachePut(cache, key, [tokens |-> tokens, lastAccessed |-> clock])
                    ELSE cache]

\* getTokens(key, shouldCache) with the cache and the clock it works on:
\* what it returns or throws, and the cache it leaves.  The entry of the
\* key is read before the expired entries are deleted, so a hit returns the
\* tokens of an entry even when that call deletes it.
getTokens(cache, clock, key, shouldCache) ==
    IF EarlyError(key) # NoErr THEN [out |-> Throw(EarlyError(key)), cache |-> cache]
    ELSE LET cleaned == IF shouldCache THEN CleanExpired(cache, clock) ELSE cache IN
         IF shouldCache /\ key \in DOMAIN cache
         THEN [out |-> Ok(cache[key].tokens),
               cache |-> IF key \in DOMAIN cleaned
                         THEN [cleaned EXCEPT ![key].lastAccessed = clock]
                         ELSE cleaned]
         ELSE LET tokens == SplitDots(StripLeadingDot(ReplaceBrackets(key))) IN
              IF \E i \in DOMAIN tokens : tokens[i] = <<>>
              THEN [out |-> Throw(InvalidPathFormatError("Path contains empty segments")),
                    cache |-> cleaned]
              ELSE [out |-> Ok(tokens),
                    cache |-> IF shouldCache
                              THEN CachePut(cleaned, key, [tokens |-> tokens, lastAccessed |-> clock])
                              ELSE cleaned]

----------------------------------------------------------------------------
(* JavaScript values and the heap of objects *)

\* the largest number a leaf holds; the update callbacks stay below it
MaxPrim == 2

Undef == [t |-> "undef", v |-> 0]
Null == [t |-> "null", v |-> 0]
Prim(n) == [t |-> "prim", v |-> n]
Ref(a) == [t |-> "ref", v |-> a]

\* x == null
IsNullish(x) == x.t \in {"undef", "null"}

\* the prototype objects: addresses of Object.prototype, Array.prototype and
\* the prototype of the class of the tests (UserC / NameC)
ObjectProto == 1
ArrayProto == 2
ClassProto == 3

NoKeys == [k \in {} |-> Undef]

MkObj(proto, props) == [kind |-> "obj", proto |-> proto, props |-> props, elems |-> <<>>]
MkArr(elems) == [kind |-> "arr", proto |-> ArrayProto, props |-> NoKeys, elems |-> elems]

\* Array.isArray(x)
IsArray(h, x) == x.t = "ref" /\ h[x.v].kind = "arr"

\* value of a string of decimal digits
RECURSIVE DecimalValue(_)
DecimalValue(s) ==
    IF s = <<>> THEN 0
    ELSE 10 * DecimalValue(SubSeq(s, 1, Len(s) - 1)) + DigitVal(s[Len(s)])

\* parseInt(key) is not NaN: the key starts with a digit (the tokens keyed
\* accepts hold no sign and no white space)
ParseIntIsNumber(key) == DigitRun(key, 1) > 0
\* parseInt(key): the value of the leading run of digits
ParseInt(key) == DecimalValue(SubSeq(key, 1, DigitRun(key, 1)))
\* Number(key): the value of an all-digit key; NaN is told apart by NumberIsNaN
NumberIsNaN(key) == ~AllDigits(key)
\* storing into an Int32Array: NaN becomes 0; a number below 2^31 is kept
\* (the decimal tokens of the model are far below 2^31, where wrapping starts)
Int32Of(key) == IF NumberIsNaN(key) THEN 0 ELSE DecimalValue(key)

\* new Set(new Int32Array(keyTokens.filter(k => !isNaN(parseInt(k))).map(Number)))
NumericIndices(keyTokens) ==
    {Int32Of(keyTokens[i]) : i \in {j \in DOMAIN keyTokens : ParseIntIsNumber(keyTokens[j])}}

\* /^(?:\d+|[a-zA-Z_$][a-zA-Z0-9_$]*)$/.test(key)
KeyFormatOk(key) ==
    /\ key # <<>>
    /\ \/ AllDigits(key)
       \/ /\ IsLetter(key[1]) \/ key[1] \in {"_", "$"}
          /\ \A i \in 2..Len(key) : IsLetter(key[i]) \/ IsDigit(key[i]) \/ key[i] \in {"_", "$"}

\* a property name that is an array index: canonical decimal form (below
\* 2^32 - 1, which every decimal token of the model is)
IsArrayIndex(key) ==
    key # <<>> /\ AllDigits(key) /\ (Len(key) = 1 \/ key[1] # "0")

ProtoKey == <<"_", "_", "p", "r", "o", "t", "o", "_", "_">>

\* obj[key] for an object of the heap: own property, array element, or the
\* property found along the prototype chain
RECURSIVE Lookup(_, _, _)
Lookup(h, a, key) ==
    LET o == h[a] IN
    IF key = ProtoKey THEN (IF o.proto = 0 THEN Null ELSE Ref(o.proto))
    ELSE IF o.kind = "arr" /\ IsArrayIndex(key)
    THEN (IF DecimalValue(key) < Len(o.elems) THEN o.elems[DecimalValue(key) + 1] ELSE Undef)
    ELSE IF key \in DOMAIN o.props THEN o.props[key]
    ELSE IF o.proto = 0 THEN Undef
    ELSE Lookup(h, o.proto, key)

\* current[key] for a non-nullish current; a number has none of the
\* properties the model names
ReadProp(h, current, key) ==
    IF current.t = "ref" THEN Lookup(h, current.v, key) ELSE Undef

\* current[n] for a number n on an array: the element, undefined past the end
ReadIndex(h, current, n) ==
    IF n < Len(h[current.v].elems) THEN h[current.v].elems[n + 1] ELSE Undef

Val(x) == [ok |-> TRUE, val |-> x, err |-> NoErr]
Raise(e) == [ok |-> FALSE, val |-> Undef, err |-> e]

\* a traversal that reads a property of null or undefined instead of
\* stopping there
RECURSIVE GetNestedFromNoNullCheck(_, _, _, _, _)
GetNestedFromNoNullCheck(h, current, keyTokens, i, isNumericKey) ==
    IF i > Len(keyTokens) THEN Val(current)
    ELSE LET key == keyTokens[i] IN
         IF ~KeyFormatOk(key) THEN Raise(InvalidPropertyKeyError(key))
         ELSE IF IsNullish(current)
         THEN Raise([cls |-> "TypeError", text |-> "Cannot read properties of undefined", arg |-> <<>>])
         ELSE IF ParseIntIsNumber(key) /\ ParseInt(key) \in isNumericKey
         THEN GetNestedFromNoNullCheck(h,
                  IF IsArray(h, current) THEN ReadIndex(h, current, ParseInt(key)) ELSE Undef,
                  keyTokens, i + 1, isNumericKey)
         ELSE GetNestedFromNoNullCheck(h, ReadProp(h, current, key), keyTokens, i + 1, isNumericKey)

\* the loop of getNested from token i on
RECURSIVE GetNestedFrom(_, _, _, _, _)
GetNestedFrom(h, current, keyTokens, i, isNumericKey) ==
    IF i > Len(keyTokens) THEN Val(current)
    ELSE LET key == keyTokens[i] IN
         IF ~KeyFormatOk(key) THEN Raise(InvalidPropertyKeyError(key))
         ELSE IF IsNullish(current) THEN Val(Undef)
         ELSE IF ParseIntIsNumber(key) /\ ParseInt(key) \in isNumericKey
         THEN GetNestedFrom(h,
                  IF IsArray(h, current) THEN ReadIndex(h, current, ParseInt(key)) ELSE Undef,
                  keyTokens, i + 1, isNumericKey)
         ELSE GetNestedFrom(h, ReadProp(h, current, key), keyTokens, i + 1, isNumericKey)

getNested(h, root, keyTokens) ==
    IF IsNullish(root) THEN Val(Undef)
    ELSE GetNestedFrom(h, root, keyTokens, 1, NumericIndices(keyTokens))

TypeError(text) == [cls |-> "TypeError", text |-> text, arg |-> <<>>]

\* the result of an operation that allocates or assigns: the heap, a value
Done(h, x) == [ok |-> TRUE, heap |-> h, val |-> x, err |-> NoErr]
Fail(h, e) == [ok |-> FALSE, heap |-> h, val |-> Undef, err |-> e]

\* [...source]: a new array of the elements; other properties are not copied
SpreadArray(h, source) ==
    Done(Append(h, MkArr(h[source.v].elems)), Ref(Len(h) + 1))

\* a clone made with an object spread: the properties on a plain object
clonedWithoutPrototype(h, source) ==
    IF source.t # "ref" THEN Fail(h, TypeError("Source must be an object or array"))
    ELSE IF IsArray(h, source) THEN SpreadArray(h, source)
    ELSE Done(Append(h, MkObj(ObjectProto, h[source.v].props)), Ref(Len(h) + 1))

\* a clone that also copies the first object a property of the source holds
clonedWithCopiedChild(h, source) ==
    IF source.t # "ref" THEN Fail(h, TypeError("Source must be an object or array"))
    ELSE IF IsArray(h, source) THEN SpreadArray(h, source)
    ELSE LET o == h[source.v]
             K == {k \in DOMAIN o.props : o.props[k].t = "ref"} IN
         IF K = {} THEN Done(Append(h, MkObj(o.proto, o.props)), Ref(Len(h) + 1))
         ELSE LET k == CHOOSE j \in K : TRUE
                  h1 == Append(h, h[o.props[k].v]) IN
              Done(Append(h1, MkObj(o.proto, [o.props EXCEPT ![k] = Ref(Len(h) + 1)])),
                   Ref(Len(h) + 2))

\* clonedWithPrototype(source)
clonedWithPrototype(h, source) ==
    IF source.t # "ref" THEN Fail(h, TypeError("Source must be an object or array"))
    ELSE IF IsArray(h, source) THEN SpreadArray(h, source)
    ELSE Done(Append(h, MkObj(h[source.v].proto, h[source.v].props)), Ref(Len(h) + 1))

\* Array.isArray($parent) ? [...$parent] : clonedWithPrototype($parent)
CloneParent(h, parent) ==
    IF IsArray(h, parent) THEN SpreadArray(h, parent) ELSE clonedWithPrototype(h, parent)

\* the elements of an array after arr[n] = value: holes read as undefined
SetElem(elems, n, value) ==
    [i \in 1..(IF n + 1 > Len(elems) THEN n + 1 ELSE Len(elems)) |->
        IF i = n + 1 THEN value ELSE IF i <= Len(elems) THEN elems[i] ELSE Undef]

SetKey(props, key, value) ==
    [k \in DOMAIN props \cup {key} |-> IF k = key THEN value ELSE props[k]]

\* target[leafToken] = value where an assignment to a property of null or
\* undefined is dropped
AssignPropDropped(h, target, leafToken, value) ==
    IF IsNullish(target) THEN Done(h, value)
    ELSE IF target.t # "ref" THEN Fail(h, TypeError("Cannot create property on primitive"))
    ELSE LET o == h[target.v] IN
         IF o.kind = "arr" /\ IsArrayIndex(leafToken)
         THEN Done([h EXCEPT ![target.v].elems = SetElem(o.elems, DecimalValue(leafToken), value)], value)
         ELSE Done([h EXCEPT ![target.v].props = SetKey(o.props, leafToken, value)], value)

\* target[leafToken] = value in strict mode
AssignProp(h, target, leafToken, value) ==
    IF IsNullish(target) THEN Fail(h, TypeError("Cannot set properties of undefined"))
    ELSE IF target.t # "ref" THEN Fail(h, TypeError("Cannot create property on primitive"))
    ELSE LET o == h[target.v] IN
         IF leafToken = ProtoKey
         THEN (IF value.t = "ref" THEN Done([h EXCEPT ![target.v].proto = value.v], value)
               ELSE IF value.t = "null" THEN Done([h EXCEPT ![target.v].proto = 0], value)
               ELSE Done(h, value))
         ELSE IF o.kind = "arr" /\ IsArrayIndex(leafToken)
         THEN Done([h EXCEPT ![target.v].elems = SetElem(o.elems, DecimalValue(leafToken), value)], value)
         ELSE Done([h EXCEPT ![target.v].props = SetKey(o.props, leafToken, value)], value)

\* keyTokens.slice(0, -1) and keyTokens[keyTokens.length - 1]
BranchTokens(keyTokens) == SubSeq(keyTokens, 1, Len(keyTokens) - 1)
LeafToken(keyTokens) == keyTokens[Len(keyTokens)]

\* the update callbacks handed to view.update: total functions on values
Fns == {"inc", "id"}
ApplyFn(fn, x) ==
    IF fn = "id" THEN x
    ELSE IF fn = "zero" THEN Prim(0)
    ELSE IF x.t = "prim" THEN Prim((x.v + 1) % (MaxPrim + 1)) ELSE Prim(0)

\* what a callback given to parent.update returns or throws; calls and arg
\* record the invocations of the user's function
Wrote(h, root, calls, arg) == [ok |-> TRUE, heap |-> h, root |-> root, err |-> NoErr, calls |-> calls, arg |-> arg]
WriteFailed(h, root, e, calls, arg) == [ok |-> FALSE, heap |-> h, root |-> root, err |-> e, calls |-> calls, arg |-> arg]

\* getNested(newParent, branchTokens)[leafToken] = value; return newParent
WriteLeaf(h, parent, keyTokens, value, calls, arg) ==
    LET c == CloneParent(h, parent) IN
    IF ~c.ok THEN WriteFailed(h, parent, c.err, calls, arg)
    ELSE LET target == getNested(c.heap, c.val, BranchTokens(keyTokens)) IN
         IF ~target.ok THEN WriteFailed(h, parent, target.err, calls, arg)
         ELSE LET w == AssignProp(c.heap, target.val, LeafToken(keyTokens), value) IN
              IF ~w.ok THEN WriteFailed(h, parent, w.err, calls, arg)
              ELSE Wrote(w.heap, c.val, calls, arg)

\* a set that does not return early for a nullish parent
SetCallbackNoGuard(h, parent, keyTokens, value) ==
    WriteLeaf(h, parent, keyTokens, value, 0, Undef)

\* a set that returns the parent it was given when the path holds the value
SetCallbackSkipEqual(h, parent, keyTokens, value) ==
    IF IsNullish(parent) THEN Wrote(h, parent, 0, Undef)
    ELSE IF getNested(h, parent, keyTokens) = Val(value) THEN Wrote(h, parent, 0, Undef)
    ELSE WriteLeaf(h, parent, keyTokens, value, 0, Undef)

\* the callback of set: ($parent) => { ... }
SetCallback(h, parent, keyTokens, value) ==
    IF IsNullish(parent) THEN Wrote(h, parent, 0, Undef)
    ELSE WriteLeaf(h, parent, keyTokens, value, 0, Undef)

\* the callback of update: ($parent) => { ... fn(getNested($parent, keyTokens)) ... }
UpdateCallback(h, parent, keyTokens, fn) ==
    IF IsNullish(parent) THEN Wrote(h, parent, 0, Undef)
    ELSE LET cur == getNested(h, parent, keyTokens) IN
         IF ~cur.ok THEN WriteFailed(h, parent, cur.err, 0, Undef)
         ELSE WriteLeaf(h, parent, keyTokens, ApplyFn(fn, cur.val), 1, cur.val)

----------------------------------------------------------------------------
(* keyed(parent, path): validation of the tokens *)

\* /\b(and|or|not)\b/i.test(token): one of the words, with a word boundary
\* on both sides (a boundary lies between a \w and a non-\w or an end)
WordAt(s, i, j) ==
    /\ SubSeq(LowerStr(s), i, j) \in {<<"a", "n", "d">>, <<"o", "r">>, <<"n", "o", "t">>}
    /\ (i = 1 \/ ~IsWord(s[i - 1]))
    /\ (j = Len(s) \/ ~IsWord(s[j + 1]))

HasSqlWord(s) == \E i \in 1..Len(s) : \E j \in i..Len(s) : WordAt(s, i, j)

\* a list of forbidden patterns without /__proto__/i
MatchesForbiddenNoProto(token) ==
    \/ ContainsCI(token, <<"c", "o", "n", "s", "t", "r", "u", "c", "t", "o", "r">>)
    \/ ContainsCI(token, <<"p", "r", "o", "t", "o", "t", "y", "p", "e">>)
    \/ \E i \in DOMAIN token : token[i] \in {"<", ">"}
    \/ ContainsCI(token, <<"$", "w", "h", "e", "r", "e">>)
    \/ HasSqlWord(token)

\* FORBIDDEN_PATTERNS.some((pattern) => pattern.test(token))
MatchesForbidden(token) ==
    \/ ContainsCI(token, ProtoKey)
    \/ ContainsCI(token, <<"c", "o", "n", "s", "t", "r", "u", "c", "t", "o", "r">>)
    \/ ContainsCI(token, <<"p", "r", "o", "t", "o", "t", "y", "p", "e">>)
    \/ \E i \in DOMAIN token : token[i] \in {"<", ">"}
    \/ ContainsCI(token, <<"$", "w", "h", "e", "r", "e">>)
    \/ HasSqlWord(token)

\* /^[a-zA-Z0-9_$][\w$]*$/.test(token)
TokenShapeOk(token) ==
    /\ token # <<>>
    /\ IsLetter(token[1]) \/ IsDigit(token[1]) \/ token[1] \in {"_", "$"}
    /\ \A i \in 2..Len(token) : IsWord(token[i]) \/ token[i] = "$"

validateToken(token) == ~MatchesForbidden(token) /\ TokenShapeOk(token)

ForbiddenKeyError(token) == [cls |-> "Error", text |-> "Key contains forbidden property name", arg |-> token]

\* keyTokens.find((token) => !validateToken(token)): index of the first
\* token that is not valid, 0 when every token is valid
ForbiddenIndex(keyTokens) ==
    IF \A i \in DOMAIN keyTokens : validateToken(keyTokens[i]) THEN 0
    ELSE CHOOSE i \in DOMAIN keyTokens :
            /\ ~validateToken(keyTokens[i])
            /\ \A j \in 1..(i - 1) : validateToken(keyTokens[j])

\* the tokens keyed works with, or the error it throws before it builds
\* the derived store
CheckTokens(t) ==
    IF ~t.ok THEN t
    ELSE IF ForbiddenIndex(t.tokens) # 0
    THEN Throw(ForbiddenKeyError(t.tokens[ForbiddenIndex(t.tokens)]))
    ELSE t

KeyedTokens(path) == CheckTokens(GetTokens(path))

----------------------------------------------------------------------------
(* The parent store and the views *)

\* number of views created over the parent
NumViews == 2
\* number of objects the heap holds: bounds the writes of a behaviour
MaxHeap == 8

Slots == 1..NumViews
\* sub tells whether the subscriber of the view is subscribed ("on"), has
\* called its unsubscribe function ("off") or never subscribed ("never")
NoView == [st |-> "none", path |-> <<>>, tokens |-> <<>>,
           derivedVal |-> Undef, delivered |-> Undef, sub |-> "never"]

\* no run of queued jobs is on
NoDrain == [on |-> FALSE, base |-> Undef, scheduled |-> <<>>]

NoOp == [op |-> "init", slot |-> 0, path |-> <<>>, value |-> Undef, fn |-> "", ok |-> TRUE,
         err |-> NoErr, preHeap |-> <<>>, preRoot |-> Undef, notified |-> {},
         parentNotified |-> FALSE, calls |-> 0, arg |-> Undef]

\* the objects the parent store is created with: the three prototypes, an
\* object whose two properties hold the same object, an instance of the
\* class with a number and a null, and an array
InitHeap == <<
    MkObj(0, NoKeys),
    MkObj(ObjectProto, NoKeys),
    MkObj(ObjectProto, NoKeys),
    MkObj(ObjectProto, (<<"a">> :> Ref(5)) @@ (<<"b">> :> Ref(5))),
    MkObj(ClassProto, (<<"a">> :> Prim(0)) @@ (<<"b">> :> Null)),
    MkArr(<<Ref(4), Prim(0)>>) >>

\* the values the owner of the parent store puts into it
RootValues == {Undef, Null, Ref(4), Ref(5), Ref(6)}

\* the paths handed to keyed
PathInputs == {
    <<"a">>,
    <<"a", ".", "a">>,
    <<"b", ".", "a">>,
    <<"[", "0", "]">>,
    <<"[", "0", "1", "]">>,
    <<"[", "-", "1", "]">>,
    <<"[", "0", "]", ".", "a", ".", "a">>,
    <<"a", ".", "1", "a">>,
    <<"_", "_", "p", "r", "o", "t", "o", "_", "_">>,
    <<"_", "_", "p", "r", "o", "t", "o", "_", "_", ".", "a">>,
    <<"a", ".", "_", "_", "p", "r", "o", "t", "o", "_", "_">>,
    <<"a", ".", "_", "_", "p", "r", "o", "t", "o", "_", "_", ".", "a">>,
    <<"a", ".", ".", "b">> }

\* the values handed to view.set
SetValues == {Prim(0), Prim(1)}

\* a view that derives its value from the branch tokens only
DerivedFnBranchOnly(h, parent, keyTokens) == getNested(h, parent, BranchTokens(keyTokens))

\* derived(parent, ($parent) => getNested($parent, keyTokens)): the function
\* that computes the value of the view
DerivedFn(h, parent, keyTokens) == getNested(h, parent, keyTokens)

\* a store that hands every value on, changed or not
SafeNotEqualAlways(a, b) == TRUE

\* a store that compares objects by identity, as it does numbers
SafeNotEqualStrict(a, b) == a # b

\* safe_not_equal(a, b) of the store: objects always count as changed
SafeNotEqual(a, b) == a # b \/ a.t = "ref"

\* the parent runs its subscribers, in order, with the new value.  A derived
\* store recomputes its value and queues its own subscriber when the value
\* changed; an exception thrown by the recomputation ends the delivery.
RECURSIVE Deliver(_, _, _, _, _)
Deliver(h, value, order, i, acc) ==
    IF i > Len(order) THEN acc
    ELSE LET id == order[i]
             r == DerivedFn(h, value, acc.views[id].tokens) IN
         IF ~r.ok THEN [acc EXCEPT !.halted = TRUE, !.err = r.err]
         ELSE IF SafeNotEqual(acc.views[id].derivedVal, r.val)
         THEN Deliver(h, value, order, i + 1,
                 [acc EXCEPT !.views[id].derivedVal = r.val, !.notified = @ \cup {id}])
         ELSE Deliver(h, value, order, i + 1, acc)

\* the queued subscribers of the views run after the subscribers of the
\* parent; none of them runs when the delivery ended with an exception
RunQueue(acc) ==
    IF acc.halted THEN [acc EXCEPT !.notified = {}]
    ELSE [acc EXCEPT !.views = [s \in Slots |->
            IF s \in acc.notified THEN [acc.views[s] EXCEPT !.delivered = acc.views[s].derivedVal]
            ELSE acc.views[s]]]

\* parent.set(value) on the heap h: nothing happens when the value did not
\* change; else the direct subscriber runs first, then the derived stores
StoreSet(h, value) ==
    LET acc0 == [views |-> views, parentSub |-> parentSub, notified |-> {},
                 parentNotified |-> FALSE, halted |-> FALSE, err |-> NoErr,
                 value |-> parentValue] IN
    IF ~SafeNotEqual(parentValue, value) THEN acc0
    ELSE RunQueue(Deliver(h, value, subs, 1,
            [acc0 EXCEPT !.value = value, !.parentSub = value, !.parentNotified = TRUE]))

Init ==
    /\ heap = InitHeap
    /\ parentValue \in RootValues
    /\ subs = <<>>
    /\ parentSub = parentValue
    /\ views = [s \in Slots |-> NoView]
    /\ lastOp = NoOp
    /\ halted = FALSE
    /\ tokKey = <<>>
    /\ tokOut = Throw(NoErr)
    /\ tokCached = FALSE
    /\ tokenCache = EmptyCache
    /\ now = 0
    /\ microtasks = <<>>
    /\ drain = NoDrain

\* keyed(parent, path): the view, or the exception and no view
Keyed(slot, path) ==
    /\ ~halted
    /\ views[slot].st = "none"
    /\ IF slot = 1 THEN TRUE ELSE views[slot - 1].st # "none"
    /\ LET g == getTokens(tokenCache, now, path, TRUE)
           t == CheckTokens(g.out) IN
       /\ tokenCache' = g.cache
       /\ views' = IF t.ok
                   THEN [views EXCEPT ![slot] = [NoView EXCEPT !.st = "live", !.path = path,
                                                               !.tokens = t.tokens]]
                   ELSE views
       /\ lastOp' = [NoOp EXCEPT !.op = "keyed", !.slot = slot, !.path = path, !.ok = t.ok,
                                 !.err = t.err, !.preHeap = heap, !.preRoot = parentValue]
    /\ UNCHANGED <<heap, parentValue, subs, parentSub, halted, tokVars, now>>

\* parent.set(value) by the owner of the parent store
ParentSet(value) ==
    /\ ~halted
    /\ LET r == StoreSet(heap, value) IN
       /\ parentValue' = r.value
       /\ views' = r.views
       /\ parentSub' = r.parentSub
       /\ halted' = r.halted
       /\ lastOp' = [NoOp EXCEPT !.op = "parentSet", !.value = value, !.ok = ~r.halted,
                                 !.err = r.err, !.preHeap = heap, !.preRoot = parentValue,
                                 !.notified = r.notified, !.parentNotified = r.parentNotified]
    /\ UNCHANGED <<heap, subs, tokVars, cacheVars>>

\* parent.update(callback) for the callback of a view: set(callback(value));
\* a callback that throws leaves the store as it was
ViewWrite(op, slot, value, fn, w) ==
    IF ~w.ok
    THEN /\ lastOp' = [NoOp EXCEPT !.op = op, !.slot = slot, !.value = value, !.fn = fn,
                                   !.ok = FALSE, !.err = w.err, !.preHeap = heap,
                                   !.preRoot = parentValue, !.calls = w.calls, !.arg = w.arg]
         /\ UNCHANGED <<heap, parentValue, subs, parentSub, views, halted, tokVars, cacheVars>>
    ELSE LET r == StoreSet(w.heap, w.root) IN
         /\ heap' = w.heap
         /\ parentValue' = r.value
         /\ views' = r.views
         /\ parentSub' = r.parentSub
         /\ halted' = r.halted
         /\ lastOp' = [NoOp EXCEPT !.op = op, !.slot = slot, !.value = value, !.fn = fn,
                                   !.ok = ~r.halted, !.err = r.err, !.preHeap = heap,
                                   !.preRoot = parentValue, !.notified = r.notified,
                                   !.parentNotified = r.parentNotified,
                                   !.calls = w.calls, !.arg = w.arg]
         /\ UNCHANGED <<subs, tokVars, cacheVars>>

\* view.set(value)
ViewSet(slot, value) ==
    /\ ~halted
    /\ views[slot].st = "live"
    /\ IF IsNullish(parentValue) THEN TRUE ELSE Len(heap) < MaxHeap
    /\ ViewWrite("set", slot, value, "", SetCallback(heap, parentValue, views[slot].tokens, value))

\* view.update(fn)
ViewUpdate(slot, fn) ==
    /\ ~halted
    /\ views[slot].st = "live"
    /\ IF IsNullish(parentValue) THEN TRUE ELSE Len(heap) < MaxHeap
    /\ ViewWrite("update", slot, Undef, fn, UpdateCallback(heap, parentValue, views[slot].tokens, fn))

\* view.subscribe(run): the derived store subscribes to the parent, computes
\* its value and hands it to run; an exception of the computation escapes
\* from the start of the store
Subscribe(slot) ==
    /\ ~halted
    /\ views[slot].st = "live"
    /\ slot \notin Range(subs)
    /\ LET r == DerivedFn(heap, parentValue, views[slot].tokens) IN
       IF r.ok
       THEN /\ views' = [views EXCEPT ![slot].derivedVal = r.val, ![slot].delivered = r.val,
                                      ![slot].sub = "on"]
            /\ subs' = Append(subs, slot)
            /\ lastOp' = [NoOp EXCEPT !.op = "subscribe", !.notified = {slot}]
            /\ UNCHANGED halted
       ELSE /\ halted' = TRUE
            /\ lastOp' = [NoOp EXCEPT !.op = "subscribe", !.ok = FALSE, !.err = r.err]
            /\ UNCHANGED <<views, subs>>
    /\ UNCHANGED <<heap, parentValue, parentSub, tokVars, cacheVars>>

\* an unsubscribe function that leaves the derived store subscribed to the
\* parent
UnsubscribeStillRunning(slot) ==
    /\ ~halted
    /\ slot \in Range(subs)
    /\ views[slot].sub = "on"
    /\ views' = [views EXCEPT ![slot].sub = "off"]
    /\ lastOp' = [NoOp EXCEPT !.op = "unsubscribe"]
    /\ UNCHANGED <<heap, parentValue, subs, parentSub, halted, tokVars, cacheVars>>

\* the unsubscribe function returned by view.subscribe: the derived store
\* stops; the value it kept is recomputed when it starts again, so the
\* model forgets it
Unsubscribe(slot) ==
    /\ ~halted
    /\ slot \in Range(subs)
    /\ subs' = SelectSeq(subs, LAMBDA id : id # slot)
    /\ views' = [views EXCEPT ![slot].derivedVal = Undef, ![slot].delivered = Undef,
                               ![slot].sub = "off"]
    /\ lastOp' = [NoOp EXCEPT !.op = "unsubscribe"]
    /\ UNCHANGED <<heap, parentValue, parentSub, halted, tokVars, cacheVars>>

\* get(view): the stored value of a view that has a subscriber, else the
\* value computed from the parent's current value
ViewValue(slot) ==
    IF slot \in Range(subs) THEN Val(views[slot].derivedVal)
    ELSE DerivedFn(heap, parentValue, views[slot].tokens)

\* a call made by the script: no queued job is running, and the call queues
\* none
ScriptStep == ~drain.on /\ UNCHANGED taskVars

\* the steps of a program that works with the views of the slots S, with
\* the paths, roots, values and callbacks it uses; it hands keyed as many
\* well-formed paths as it has slots
StoreSteps(S, paths, roots, values, fns) ==
    \/ \E slot \in S, path \in paths :
          /\ Cardinality(DOMAIN tokenCache) < Cardinality(S)
          /\ Keyed(slot, path)
          /\ ScriptStep
    \/ \E value \in roots : ParentSet(value) /\ ScriptStep
    \/ \E slot \in S, value \in values : ViewSet(slot, value) /\ ScriptStep
    \/ \E slot \in S, fn \in fns : ViewUpdate(slot, fn) /\ ScriptStep
    \/ \E slot \in S : Subscribe(slot) /\ ScriptStep
    \/ \E slot \in S : Unsubscribe(slot) /\ ScriptStep

StoreNext(S) == StoreSteps(S, PathInputs, RootValues, SetValues, Fns)

\* a program with one view over the parent store
Next == StoreNext({1})

Spec == Init /\ [][Next]_vars

----------------------------------------------------------------------------
(* Two views over the same parent store *)

\* the paths of the two views: a property of the root, and leaves of the
\* object both properties of the root hold
TwoPaths == {<<"a">>, <<"a", ".", "a">>, <<"a", ".", "b">>, <<"b", ".", "a">>}
TwoRoots == {Ref(4)}

InitTwo ==
    /\ heap = InitHeap
    /\ parentValue \in TwoRoots
    /\ subs = <<>>
    /\ parentSub = parentValue
    /\ views = [s \in Slots |-> NoView]
    /\ lastOp = NoOp
    /\ halted = FALSE
    /\ tokKey = <<>>
    /\ tokOut = Throw(NoErr)
    /\ tokCached = FALSE
    /\ tokenCache = EmptyCache
    /\ now = 0
    /\ microtasks = <<>>
    /\ drain = NoDrain

NextTwo == StoreSteps({1, 2}, TwoPaths, TwoRoots, SetValues, {"inc"})

SpecTwo == InitTwo /\ [][NextTwo]_vars

----------------------------------------------------------------------------
(* Updates queued as jobs: Promise.resolve().then(() => view.update(fn)) *)

\* the most jobs queued at a time
MaxQueued == 2

\* the callbacks of the queued updates: n => n + 1 and n => 0
QueueFns == {"inc", "zero"}
\* the paths and the roots of the program that queues updates
QueuePaths == {<<"a">>, <<"b">>}
QueueRoots == {Ref(4), Ref(5)}

\* what the root holds at the path of a view
LeafOf(slot) ==
    IF views[slot].st = "live"
    THEN getNested(heap, parentValue, views[slot].tokens).val
    ELSE Undef

\* a job that takes the job queued last
PopTaskLast(q) == [job |-> q[Len(q)], rest |-> SubSeq(q, 1, Len(q) - 1)]

\* the job queue hands out the jobs in the order they were queued
PopTask(q) == [job |-> Head(q), rest |-> Tail(q)]

\* Promise.resolve().then(() => view.update(fn)): the job is queued; it
\* runs after the script that queued it has ended
QueueUpdate(slot, fn) ==
    /\ ~halted
    /\ ~drain.on
    /\ views[slot].st = "live"
    /\ Len(microtasks) < MaxQueued
    /\ microtasks' = Append(microtasks, [slot |-> slot, fn |-> fn])
    /\ UNCHANGED <<storeVars, tokVars, cacheVars, drain>>

\* await Promise.all(...): the script stops and the queued jobs start
StartJobs ==
    /\ ~halted
    /\ ~drain.on
    /\ microtasks # <<>>
    /\ drain' = [on |-> TRUE, base |-> [s \in Slots |-> LeafOf(s)], scheduled |-> microtasks]
    /\ UNCHANGED <<storeVars, tokVars, cacheVars, microtasks>>

\* the next job runs to its end: view.update(fn)
RunMicrotask ==
    /\ drain.on
    /\ microtasks # <<>>
    /\ LET t == PopTask(microtasks) IN
       /\ ViewUpdate(t.job.slot, t.job.fn)
       /\ microtasks' = t.rest
    /\ UNCHANGED drain

\* every job has run: the script goes on
EndJobs ==
    /\ drain.on
    /\ microtasks = <<>>
    /\ drain' = NoDrain
    /\ UNCHANGED <<storeVars, tokVars, cacheVars, microtasks>>

InitQueue ==
    /\ heap = InitHeap
    /\ parentValue \in QueueRoots
    /\ subs = <<>>
    /\ parentSub = parentValue
    /\ views = [s \in Slots |-> NoView]
    /\ lastOp = NoOp
    /\ halted = FALSE
    /\ tokKey = <<>>
    /\ tokOut = Throw(NoErr)
    /\ tokCached = FALSE
    /\ tokenCache = EmptyCache
    /\ now = 0
    /\ microtasks = <<>>
    /\ drain = NoDrain

\* a script with one view that writes, queues updates and awaits them
NextQueue ==
    \/ StoreSteps({1}, QueuePaths, QueueRoots, SetValues, QueueFns)
    \/ \E fn \in QueueFns : QueueUpdate(1, fn)
    \/ StartJobs
    \/ RunMicrotask
    \/ EndJobs

SpecQueue == InitQueue /\ [][NextQueue]_vars

----------------------------------------------------------------------------
(* The tokenizer on its own: getTokens applied to a path *)

\* the longest path written character by character
MaxRawLen == 4
\* the most tokens a path is built from
MaxTokens == 3

\* the characters of the paths written character by character
RawChars == {"a", ".", "[", "]", "1"}
RECURSIVE StringsUpTo(_)
StringsUpTo(n) ==
    IF n = 0 THEN {<<>>}
    ELSE LET shorter == StringsUpTo(n - 1) IN
         shorter \cup {Append(t, c) : t \in {u \in shorter : Len(u) = n - 1}, c \in RawChars}
RawPaths == StringsUpTo(MaxRawLen)

\* property names and decimal indices paths are built from
PropNames == {<<"a">>, <<"b", "1">>, <<"$", "x">>, <<"_", "_", "p", "r", "o", "t", "o", "_", "_">>}
IndexNames == {<<"0">>, <<"1", "2">>, <<"0", "1">>}

RECURSIVE TokenSeqsUpTo(_)
TokenSeqsUpTo(n) ==
    IF n = 0 THEN {<<>>}
    ELSE LET shorter == TokenSeqsUpTo(n - 1) IN
         shorter \cup {Append(t, k) : t \in {u \in shorter : Len(u) = n - 1},
                                      k \in PropNames \cup IndexNames}
TokenSeqs == TokenSeqsUpTo(MaxTokens) \ {<<>>}

\* the path of a sequence of tokens: names joined with '.', indices in
\* brackets appended
RECURSIVE BuildPath(_)
BuildPath(toks) ==
    IF toks = <<>> THEN <<>>
    ELSE LET k == toks[Len(toks)]
             front == BuildPath(SubSeq(toks, 1, Len(toks) - 1)) IN
         IF k \in IndexNames THEN front \o <<"[">> \o k \o <<"]">>
         ELSE IF front = <<>> THEN k
         ELSE front \o <<".">> \o k

BuiltPaths == {BuildPath(toks) : toks \in TokenSeqs}

NotCalled == Throw(NoErr)

InitTok ==
    /\ heap = InitHeap
    /\ parentValue = Undef
    /\ subs = <<>>
    /\ parentSub = Undef
    /\ views = [s \in Slots |-> NoView]
    /\ lastOp = NoOp
    /\ halted = FALSE
    /\ tokKey \in RawPaths \cup BuiltPaths
    /\ tokOut = NotCalled
    /\ tokCached = FALSE
    /\ tokenCache = EmptyCache
    /\ now = 0
    /\ microtasks = <<>>
    /\ drain = NoDrain

\* getTokens(tokKey, shouldCache)
GetTokensCall(shouldCache) ==
    /\ tokOut = NotCalled
    /\ LET r == getTokens(tokenCache, now, tokKey, shouldCache) IN
       /\ tokOut' = r.out
       /\ tokenCache' = r.cache
    /\ tokCached' = shouldCache
    /\ UNCHANGED <<tokKey, now, storeVars, taskVars>>

NextTok == \E shouldCache \in BOOLEAN : GetTokensCall(shouldCache)

SpecTok == InitTok /\ [][NextTok]_vars

----------------------------------------------------------------------------
(* keyed over paths of property names that hold or resemble the forbidden
   words *)

\* the paths handed to keyed
NamePaths == {
    <<"a">>,
    <<"a", ".", "b">>,
    <<"o", "r">>,
    <<"a", ".", "n", "o", "t">>,
    <<"c", "o", "n", "s", "t", "r", "u", "c", "t", "o", "r", "A", "r", "g", "s">>,
    <<"p", "r", "o", "t", "o", "t", "y", "p", "e", "I", "d">>,
    <<"c", "o", "n", "s", "t", "r", "u", "c", "t", "o", "r">>,
    <<"a", ".", "p", "r", "o", "t", "o", "t", "y", "p", "e">>,
    <<"_", "_", "p", "r", "o", "t", "o", "_", "_">> }

InitNames ==
    /\ heap = InitHeap
    /\ parentValue = Ref(4)
    /\ subs = <<>>
    /\ parentSub = parentValue
    /\ views = [s \in Slots |-> NoView]
    /\ lastOp = NoOp
    /\ halted = FALSE
    /\ tokKey = <<>>
    /\ tokOut = Throw(NoErr)
    /\ tokCached = FALSE
    /\ tokenCache = EmptyCache
    /\ now = 0
    /\ microtasks = <<>>
    /\ drain = NoDrain

NextNames == StoreSteps({1}, NamePaths, {Ref(4), Ref(5)}, SetValues, {"inc"})

SpecNames == InitNames /\ [][NextNames]_vars

----------------------------------------------------------------------------
(* The token cache over a run of calls of getTokens and a clock that moves *)

\* the most advances of the clock in a behaviour
MaxTicks == 1

\* the number of distinct paths a program tokenizes in a loop before the
\* calls the properties look at
WarmPaths == MAX_CACHE_SIZE - 1

\* String(n)
RECURSIVE Decimal(_)
Decimal(n) ==
    IF n < 10 THEN <<DigitSeq[n + 1]>>
    ELSE Append(Decimal(n \div 10), DigitSeq[(n % 10) + 1])

\* 'k' + i: the i-th path of the loop
FreshPath(i) == <<"k">> \o Decimal(i)

\* for (i = from; i <= to; i++) getTokens('k' + i): the result of the last
\* call and the cache it leaves (the calls of the first half of the range,
\* then those of the second); a call that throws ends the loop
RECURSIVE WarmFrom(_, _, _, _)
WarmFrom(last, clock, from, to) ==
    IF from > to THEN last
    ELSE IF from = to THEN getTokens(last.cache, clock, FreshPath(from), TRUE)
    ELSE LET mid == (from + to) \div 2
             first == WarmFrom(last, clock, from, mid) IN
         IF first.out.ok THEN WarmFrom(first, clock, mid + 1, to) ELSE first

\* the paths of the calls: two that tokenize, one that fails after the
\* cache was looked at, one that fails before
CachePaths == {<<"a">>,
               <<"a", ".", "b">>,
               <<"a", ".">>,
               <<"a", ".", ".", "b">>}

\* the steps of the clock: the time to live of an entry, and one more
TickSteps == {CACHE_TTL, CACHE_TTL + 1}

InitCache ==
    /\ heap = InitHeap
    /\ parentValue = Undef
    /\ subs = <<>>
    /\ parentSub = Undef
    /\ views = [s \in Slots |-> NoView]
    /\ lastOp = NoOp
    /\ halted = FALSE
    /\ tokKey = <<>>
    /\ tokOut = NotCalled
    /\ tokCached = FALSE
    /\ tokenCache = EmptyCache
    /\ now = 0
    /\ microtasks = <<>>
    /\ drain = NoDrain

\* the loop of calls on WarmPaths distinct paths, made before any other call
WarmUp ==
    /\ tokOut = NotCalled
    /\ LET r == WarmFrom([out |-> NotCalled, cache |-> tokenCache], now, 1, WarmPaths) IN
       /\ tokKey' = FreshPath(WarmPaths)
       /\ tokOut' = r.out
       /\ tokenCache' = r.cache
    /\ tokCached' = TRUE
    /\ UNCHANGED <<now, storeVars, taskVars>>

\* getTokens(key, shouldCache)
CacheCall(key, shouldCache) ==
    /\ LET r == getTokens(tokenCache, now, key, shouldCache) IN
       /\ tokOut' = r.out
       /\ tokenCache' = r.cache
    /\ tokKey' = key
    /\ tokCached' = shouldCache
    /\ UNCHANGED <<now, storeVars, taskVars>>

\* Date.now() moves on
Tick(d) ==
    /\ now + d <= MaxTicks * (CACHE_TTL + 1)
    /\ now' = now + d
    /\ UNCHANGED <<tokenCache, tokVars, storeVars, taskVars>>

NextCache ==
    \/ WarmUp
    \/ \E key \in CachePaths, shouldCache \in BOOLEAN : CacheCall(key, shouldCache)
    \/ \E d \in TickSteps : Tick(d)

SpecCache == InitCache /\ [][NextCache]_vars

----------------------------------------------------------------------------
(* A view over a view: keyed(keyed(store, inner), outer).  View 1 is the
   inner view; view 2 is created with view 1 as its parent. *)

\* the paths of the two views
NestedPaths == {<<"a">>, <<"b">>, <<"[", "0", "]">>}
\* the roots the owner puts into the store
NestedRoots == {Null, Ref(4), Ref(5), Ref(6)}

\* the callback the outer view makes for its set or update, run on the
\* value p of the inner view
OuterCallback(h, p, outerTokens, op, value, fn) ==
    IF op = "set" THEN SetCallback(h, p, outerTokens, value)
    ELSE UpdateCallback(h, p, outerTokens, fn)

\* inner.update(cb): the callback the inner view hands to store.update,
\* where cb is the callback of the outer view
NestedWrite(h, root, innerTokens, outerTokens, op, value, fn) ==
    IF IsNullish(root) THEN Wrote(h, root, 0, Undef)
    ELSE LET cur == getNested(h, root, innerTokens) IN
         IF ~cur.ok THEN WriteFailed(h, root, cur.err, 0, Undef)
         ELSE LET w == OuterCallback(h, cur.val, outerTokens, op, value, fn) IN
              IF ~w.ok THEN WriteFailed(h, root, w.err, w.calls, w.arg)
              ELSE WriteLeaf(w.heap, root, innerTokens, w.root, w.calls, w.arg)

\* get(outer): the derived value of the derived value
NestedGet(h, root, innerTokens, outerTokens) ==
    LET p == DerivedFn(h, root, innerTokens) IN
    IF ~p.ok THEN p ELSE DerivedFn(h, p.val, outerTokens)

InitNested ==
    /\ heap = InitHeap
    /\ parentValue \in NestedRoots
    /\ subs = <<>>
    /\ parentSub = parentValue
    /\ views = [s \in Slots |-> NoView]
    /\ lastOp = NoOp
    /\ halted = FALSE
    /\ tokKey = <<>>
    /\ tokOut = Throw(NoErr)
    /\ tokCached = FALSE
    /\ tokenCache = EmptyCache
    /\ now = 0
    /\ microtasks = <<>>
    /\ drain = NoDrain

\* outer.set(value)
NestedSet(value) ==
    /\ views[2].st = "live"
    /\ IF IsNullish(parentValue) THEN TRUE ELSE Len(heap) + 1 < MaxHeap
    /\ ViewWrite("set", 2, value, "",
                 NestedWrite(heap, parentValue, views[1].tokens, views[2].tokens,
                             "set", value, ""))

\* outer.update(fn)
NestedUpdate(fn) ==
    /\ views[2].st = "live"
    /\ IF IsNullish(parentValue) THEN TRUE ELSE Len(heap) + 1 < MaxHeap
    /\ ViewWrite("update", 2, Undef, fn,
                 NestedWrite(heap, parentValue, views[1].tokens, views[2].tokens,
                             "update", Undef, fn))

NextNested ==
    \/ \E slot \in {1, 2}, path \in NestedPaths : Keyed(slot, path) /\ ScriptStep
    \/ \E value \in NestedRoots : ParentSet(value) /\ ScriptStep
    \/ \E value \in SetValues : NestedSet(value) /\ ScriptStep
    \/ \E fn \in Fns : NestedUpdate(fn) /\ ScriptStep

SpecNested == InitNested /\ [][NextNested]_vars

----------------------------------------------------------------------------
(* Reference notions the properties are stated with *)

\* root?.[t1]?.[t2]...: the plain optional-chaining read of JavaScript
RECURSIVE PlainGet(_, _, _)
PlainGet(h, current, toks) ==
    IF toks = <<>> THEN current
    ELSE IF IsNullish(current) THEN Undef
    ELSE PlainGet(h, ReadProp(h, current, Head(toks)), Tail(toks))

Prefix(toks, n) == SubSeq(toks, 1, n)
IsPrefixOf(p, q) == Len(p) <= Len(q) /\ SubSeq(q, 1, Len(p)) = p

\* the property names the objects of the model can hold
KeyNames == {<<"a">>, <<"b">>, <<"0">>, <<"1">>, <<"0", "1">>, <<"1", "a">>}
\* the locations of a root, down to the depth of the deepest object
Locations == {<<k>> : k \in KeyNames}
             \cup {<<k1, k2>> : k1 \in KeyNames, k2 \in KeyNames}
             \cup {<<k1, k2, k3>> : k1 \in KeyNames, k2 \in KeyNames, k3 \in KeyNames}

\* what a location holds, up to the identity of a container
Shape(h, x) == IF x.t = "ref" THEN [t |-> h[x.v].kind, v |-> 0] ELSE x

\* the objects reachable from a value through properties and elements
RefsOf(o) == {o.props[k].v : k \in {j \in DOMAIN o.props : o.props[j].t = "ref"}}
             \cup {o.elems[i].v : i \in {j \in DOMAIN o.elems : o.elems[j].t = "ref"}}
RECURSIVE Closure(_, _)
Closure(h, S) ==
    LET n == S \cup UNION {RefsOf(h[a]) : a \in S} IN
    IF n = S THEN S ELSE Closure(h, n)
Reachable(h, x) == IF x.t = "ref" THEN Closure(h, {x.v}) ELSE {}

\* the last operation was a write through a view
WasWrite == lastOp.op \in {"set", "update"}
\* the tokens of the view the last operation went through
OpTokens == views[lastOp.slot].tokens

\* every branch token resolves to a container of the root
BranchesResolve(h, root, toks) ==
    \A n \in 1..(Len(toks) - 1) :
        LET r == getNested(h, root, Prefix(toks, n)) IN r.ok /\ r.val.t = "ref"

\* every location other than the written one, and than the containers on
\* the way to it, holds after the write what it held before
OthersKept(toks) ==
    \A q \in Locations :
        (~IsPrefixOf(q, toks) /\ ~IsPrefixOf(toks, q))
        => Shape(heap, PlainGet(heap, parentValue, q))
           = Shape(lastOp.preHeap, PlainGet(lastOp.preHeap, lastOp.preRoot, q))

\* the path holds the token __proto__
HasProtoToken(path) == \E i \in DOMAIN RefGetTokens(path) : RefGetTokens(path)[i] = ProtoKey

----------------------------------------------------------------------------
(* Properties *)

C2_SetKeepsOthers ==
    (lastOp.op = "set" /\ lastOp.ok /\ ~IsNullish(lastOp.preRoot))
    => /\ PlainGet(heap, parentValue, OpTokens) = lastOp.value
       /\ OthersKept(OpTokens)

\* C3: after an update through a view over a non-nullish root that returned,
\* the function was called once with the value the root before the write
\* held at the path, the location holds its result and every other location
\* holds what it held before.
C3_UpdateKeepsOthers ==
    (lastOp.op = "update" /\ lastOp.ok /\ ~IsNullish(lastOp.preRoot))
    => /\ lastOp.calls = 1
       /\ lastOp.arg = getNested(lastOp.preHeap, lastOp.preRoot, OpTokens).val
       /\ PlainGet(heap, parentValue, OpTokens) = ApplyFn(lastOp.fn, lastOp.arg)
       /\ OthersKept(OpTokens)

\* C4: read after write: after set(x) through a path of well-formed tokens
\* whose branch tokens resolve to containers of a non-nullish root, reading
\* the view yields x.
C4_ReadAfterWrite ==
    (/\ lastOp.op = "set"
     /\ ~IsNullish(lastOp.preRoot)
     /\ \A i \in DOMAIN OpTokens : KeyFormatOk(OpTokens[i])
     /\ BranchesResolve(lastOp.preHeap, lastOp.preRoot, OpTokens))
    => /\ lastOp.ok
       /\ getNested(heap, parentValue, OpTokens) = Val(lastOp.value)

\* C5: a write through a view leaves every object reachable from the root
\* before the write as it was.
C5_OldRootUntouched ==
    WasWrite
    => \A a \in Reachable(lastOp.preHeap, lastOp.preRoot) : heap[a] = lastOp.preHeap[a]

\* C6: a set or update through a view while the parent holds null or
\* undefined returns, leaves the parent's value and every object as they
\* were, creates no object and notifies no subscriber.
C6_NullishWriteIsNoOp ==
    (WasWrite /\ IsNullish(lastOp.preRoot))
    => /\ lastOp.ok
       /\ parentValue = lastOp.preRoot
       /\ heap = lastOp.preHeap
       /\ lastOp.notified = {}
       /\ ~lastOp.parentNotified

\* a write through a subscribed view met a nullish parent
C6_Witness ==
    /\ WasWrite
    /\ IsNullish(lastOp.preRoot)
    /\ lastOp.slot \in Range(subs)

\* the root is nullish, or a container reached before the last token is
\* nullish or lacks the key
ReadCutShort(h, root, toks) ==
    \E n \in 0..(Len(toks) - 1) : IsNullish(PlainGet(h, root, Prefix(toks, n)))

C8_ProtoRejected ==
    (lastOp.op = "keyed" /\ HasProtoToken(lastOp.path))
    => /\ ~lastOp.ok
       /\ views[lastOp.slot].st = "none"
       /\ lastOp.slot \notin Range(subs)
       /\ heap = lastOp.preHeap
       /\ parentValue = lastOp.preRoot

\* keyed was called with __proto__ as the middle token of three
C8_Witness ==
    /\ lastOp.op = "keyed"
    /\ Len(RefGetTokens(lastOp.path)) = 3
    /\ RefGetTokens(lastOp.path)[2] = ProtoKey
    /\ ~lastOp.ok

\* C9: the error keyed throws for a path that holds the token __proto__
\* carries the message 'key cannot include "__proto__"'.
C9_ProtoErrorMessage ==
    (lastOp.op = "keyed" /\ HasProtoToken(lastOp.path))
    => /\ lastOp.err.text = "key cannot include"
       /\ lastOp.err.arg = ProtoKey

\* C10: for a path built from property names joined with '.' and bracketed
\* decimal indices, getTokens returns the names and the digit strings in
\* the order the path was built from, which is what rewriting each [digits]
\* to .digits, stripping one leading '.' and splitting on '.' gives.
C10_TokensOfBuiltPath ==
    \A toks \in TokenSeqs :
        (tokOut # NotCalled /\ tokKey = BuildPath(toks))
        => /\ tokOut = Ok(toks)
           /\ RefGetTokens(tokKey) = tokOut.tokens

\* getTokens returned for a path that starts with an index and goes on
\* with a name and an index
C10_Witness ==
    /\ tokOut # NotCalled
    /\ tokKey = BuildPath(<<<<"1", "2">>, <<"a">>, <<"0">>>>)
    /\ tokOut.ok

\* the call of getTokens has been made
Called == tokOut # NotCalled

\* the call failed with an InvalidPathFormatError and returned no tokens
FormatErrorThrown ==
    ~tokOut.ok /\ tokOut.err.cls = "InvalidPathFormatError" /\ tokOut.tokens = <<>>

\* C11: getTokens throws EmptyPathError for the empty path and
\* InvalidPathFormatError for '.', '..' and every path with two consecutive
\* dots; a call that throws returns no tokens and leaves the cache without
\* an entry, whether caching is on or off.
C11_BadPathsFail ==
    Called
    => /\ tokKey = <<>> => tokOut = Throw(EmptyPathError)
       /\ (tokKey \in {<<".">>, <<".", ".">>} \/ Contains(tokKey, <<".", ".">>))
          => FormatErrorThrown
       /\ ~tokOut.ok => (tokOut.tokens = <<>> /\ tokenCache = EmptyCache)

\* a cached call on a path of four characters with two consecutive dots
\* between names threw
C11_Witness ==
    /\ Called
    /\ tokCached
    /\ tokKey = <<"a", ".", ".", "a">>
    /\ ~tokOut.ok

\* the segments of a path: the pieces between the dots, a bracketed index
\* being a segment of its own; a path that starts with a bracket has no
\* segment before it
SegmentsOf(key) ==
    LET r == ReplaceBrackets(key) IN
    SplitDots(IF StartsWith(key, <<"[">>) THEN StripLeadingDot(r) ELSE r)

HasEmptySegment(key) == \E i \in DOMAIN SegmentsOf(key) : SegmentsOf(key)[i] = <<>>

\* C12: getTokens throws InvalidPathFormatError for every path that has an
\* empty segment (leading dot, trailing dot, dot before a bracketed index)
\* and returns no tokens for it.
C12_EmptySegmentFails ==
    (Called /\ tokKey # <<>> /\ HasEmptySegment(tokKey)) => FormatErrorThrown

\* a bracket pair of the path whose content is not a run of decimal digits
HasBadBracketPair(key) ==
    \E i \in DOMAIN key : \E j \in (i + 1)..Len(key) :
        /\ key[i] = "[" /\ key[j] = "]"
        /\ \A k \in (i + 1)..(j - 1) : key[k] \notin {"[", "]"}
        /\ (j = i + 1 \/ ~AllDigits(SubSeq(key, i + 1, j - 1)))

\* C13: getTokens throws InvalidPathFormatError for every path with a
\* bracket pair whose content is not made of decimal digits only, and no
\* token it returns holds '[' or ']'.
C13_NonNumericBracketFails ==
    Called
    => /\ HasBadBracketPair(tokKey) => FormatErrorThrown
       /\ tokOut.ok => \A i \in DOMAIN tokOut.tokens :
                           \A k \in DOMAIN tokOut.tokens[i] : tokOut.tokens[i][k] \notin {"[", "]"}

\* C14: keyed(list, '[-1]') over a store that holds an array returns a view
\* whose value is the last element of the array.
C14_NegativeIndexIsLast ==
    (/\ lastOp.op = "keyed"
     /\ lastOp.path = <<"[", "-", "1", "]">>
     /\ IsArray(heap, parentValue))
    => /\ lastOp.ok
       /\ views[lastOp.slot].st = "live"
       /\ ViewValue(lastOp.slot)
            = Val(heap[parentValue.v].elems[Len(heap[parentValue.v].elems)])

\* the prototype of the object a value refers to
ProtoOf(h, x) == h[x.v].proto

\* C15: a write through a view that returned leaves the parent holding an
\* object of the prototype the root had before the write, and every
\* container the branch tokens lead to keeps its prototype; the new root
\* has the own properties of the old one (no constructor ran), and the
\* leaf of a one-token path.
C15_PrototypeKept ==
    (WasWrite /\ lastOp.ok /\ lastOp.preRoot.t = "ref")
    => /\ parentValue.t = "ref"
       /\ ProtoOf(heap, parentValue) = ProtoOf(lastOp.preHeap, lastOp.preRoot)
       /\ \A n \in 1..(Len(OpTokens) - 1) :
             LET old == getNested(lastOp.preHeap, lastOp.preRoot, Prefix(OpTokens, n)).val
                 new == getNested(heap, parentValue, Prefix(OpTokens, n)).val IN
             old.t = "ref" => (new.t = "ref" /\ ProtoOf(heap, new) = ProtoOf(lastOp.preHeap, old))
       /\ heap[parentValue.v].kind = "obj"
          => DOMAIN heap[parentValue.v].props
             = DOMAIN lastOp.preHeap[lastOp.preRoot.v].props
               \cup (IF Len(OpTokens) = 1 THEN {LeafToken(OpTokens)} ELSE {})

\* a set through a view replaced a root that is an instance of the class
\* with a new object of the class
C15_Witness ==
    /\ lastOp.op = "set"
    /\ lastOp.ok
    /\ lastOp.preRoot = Ref(5)
    /\ parentValue # lastOp.preRoot
    /\ ProtoOf(heap, parentValue) = ClassProto

\* the number of jobs of the run that have run
JobsRun == Len(drain.scheduled) - Len(microtasks)

\* the value a path holds after the jobs of its view have been applied, one
\* after another, to the value x
RECURSIVE ApplyJobs(_, _, _)
ApplyJobs(jobs, slot, x) ==
    IF jobs = <<>> THEN x
    ELSE ApplyJobs(Tail(jobs), slot,
                   IF Head(jobs).slot = slot THEN ApplyFn(Head(jobs).fn, x) ELSE x)

\* C16: while the queued updates run, the path of the view holds what
\* applying the jobs run so far, in the order they were queued, gives from
\* the value the run started with; every job called its function once, with
\* the value the job before it left.
C16_QueuedUpdatesInOrder ==
    drain.on
    => /\ \A slot \in Slots :
             views[slot].st = "live"
             => LeafOf(slot) = ApplyJobs(Prefix(drain.scheduled, JobsRun), slot, drain.base[slot])
       /\ JobsRun > 0
          => /\ lastOp.op = "update"
             /\ lastOp.calls = 1
             /\ lastOp.arg = ApplyJobs(Prefix(drain.scheduled, JobsRun - 1), lastOp.slot,
                                       drain.base[lastOp.slot])

\* two queued n => n + 1 have run from 0 and left 2
C16_Witness ==
    /\ drain.on
    /\ microtasks = <<>>
    /\ drain.scheduled = <<[slot |-> 1, fn |-> "inc"], [slot |-> 1, fn |-> "inc"]>>
    /\ drain.base[1] = Prim(0)
    /\ LeafOf(1) = Prim(2)

\* neither path leads through the other
NonOverlapping(p, q) == ~IsPrefixOf(p, q) /\ ~IsPrefixOf(q, p)

\* the last operation was a write through a view over a non-nullish root
\* that returned
WroteThrough == WasWrite /\ lastOp.ok /\ ~IsNullish(lastOp.preRoot)

\* C17: a write through one view leaves the path of another view, when
\* neither path leads through the other, holding what it held, and the
\* other view reads from the root the write produced.
C17_ViewsDoNotClobber ==
    WroteThrough
    => \A other \in Slots \ {lastOp.slot} :
          (views[other].st = "live" /\ NonOverlapping(views[other].tokens, OpTokens))
          => /\ getNested(heap, parentValue, views[other].tokens)
                  = getNested(lastOp.preHeap, lastOp.preRoot, views[other].tokens)
             /\ ViewValue(other) = getNested(heap, parentValue, views[other].tokens)

\* the last operation was a change of the parent made while the subscriber
\* of the view was subscribed
ChangeSeenBy(slot) ==
    /\ lastOp.op \in {"set", "update", "parentSet"}
    /\ ~halted
    /\ slot \in Range(subs)

\* the value of the view before and after the last operation
OldValue(slot) == getNested(lastOp.preHeap, lastOp.preRoot, views[slot].tokens).val
NewValue(slot) == getNested(heap, parentValue, views[slot].tokens).val

\* C18 as stated: a subscriber is called on subscription, and afterwards
\* exactly when a change of the parent changes the value of its view.
C18_Original ==
    /\ lastOp.op = "subscribe" /\ lastOp.ok => Cardinality(lastOp.notified) = 1
    /\ \A slot \in Slots :
          ChangeSeenBy(slot) => (slot \in lastOp.notified <=> NewValue(slot) # OldValue(slot))

\* C18: a subscriber is called once on subscription; afterwards, when the
\* value of its view was not an object, it is called exactly when a change
\* of the parent changes the value of the view, so that setting the view to
\* the value it has, or writing through another view, is not delivered.
C18_NotifiedOnChange ==
    /\ lastOp.op = "subscribe" /\ lastOp.ok => Cardinality(lastOp.notified) = 1
    /\ \A slot \in Slots :
          (ChangeSeenBy(slot) /\ OldValue(slot).t # "ref")
          => (slot \in lastOp.notified <=> NewValue(slot) # OldValue(slot))

\* a write through the other view left the number a subscribed view holds
\* as it was, and the subscriber was not called
C18_Witness ==
    \E slot \in Slots :
        /\ ChangeSeenBy(slot)
        /\ WroteThrough
        /\ lastOp.slot # slot
        /\ OldValue(slot).t = "prim"
        /\ NewValue(slot) = OldValue(slot)
        /\ slot \notin lastOp.notified

\* C19 as stated: a subscriber of a view is called on every emission of
\* the parent.
C19_Original ==
    \A slot \in Slots :
        (ChangeSeenBy(slot) /\ lastOp.parentNotified) => slot \in lastOp.notified

\* C19: on an emission of the parent a subscriber of a view is called when
\* the value of the view changed or was an object, and is not called when
\* a value that is not an object stayed the same.
C19_NotifiedPerEmission ==
    \A slot \in Slots :
        (ChangeSeenBy(slot) /\ lastOp.parentNotified)
        => (slot \in lastOp.notified
            <=> (NewValue(slot) # OldValue(slot) \/ OldValue(slot).t = "ref"))

\* the parent emitted, the view still holds the same object, and its
\* subscriber was called
C19_Witness ==
    \E slot \in Slots :
        /\ ChangeSeenBy(slot)
        /\ lastOp.parentNotified
        /\ OldValue(slot).t = "ref"
        /\ NewValue(slot) = OldValue(slot)
        /\ slot \in lastOp.notified

\* C20: a subscriber that has called its unsubscribe function is not called
\* again, whatever is written later, and a write through its view that
\* returned replaced the root of the parent and put the value at the path.
C20_NoCallAfterUnsubscribe ==
    /\ \A slot \in Slots : views[slot].sub = "off" => slot \notin lastOp.notified
    /\ (WroteThrough /\ views[lastOp.slot].sub = "off")
       => /\ parentValue # lastOp.preRoot
          /\ PlainGet(heap, parentValue, OpTokens)
               = (IF lastOp.op = "set" THEN lastOp.value ELSE ApplyFn(lastOp.fn, lastOp.arg))

\* a set through a view whose subscriber had unsubscribed changed the
\* number at the path
C20_Witness ==
    /\ lastOp.op = "set"
    /\ WroteThrough
    /\ views[lastOp.slot].sub = "off"
    /\ lastOp.parentNotified
    /\ PlainGet(heap, parentValue, OpTokens) = lastOp.value
    /\ PlainGet(lastOp.preHeap, lastOp.preRoot, OpTokens) # lastOp.value


\* the last operation was a write through a view over a non-nullish root
WroteOver == WasWrite /\ ~IsNullish(lastOp.preRoot)

\* C21: a set or update through a path over a non-nullish root leaves the
\* value at every path whose first token differs from the first token of
\* the written path the same in the new root as in the root before the
\* write.
C21_NonInterference ==
    WroteOver
    => \A q \in Locations :
          q[1] # OpTokens[1]
          => PlainGet(heap, parentValue, q) = PlainGet(lastOp.preHeap, lastOp.preRoot, q)

\* C22: after a write through a path of n tokens the root and each of the
\* n - 1 containers the branch tokens reach in the new root is another
\* object than the one the same tokens reach in the root before the write.
C22_SpineCloned ==
    WroteThrough
    => \A n \in 0..(Len(OpTokens) - 1) :
          PlainGet(heap, parentValue, Prefix(OpTokens, n))
              # PlainGet(lastOp.preHeap, lastOp.preRoot, Prefix(OpTokens, n))

\* C23: after a write every location that holds an object, and that neither
\* leads to the written location nor lies below it, holds the very same
\* object in the new root as in the root before the write, and the write
\* made one new object, the root.
C23_StructuralSharing ==
    WroteThrough
    => /\ \A q \in Locations :
             (/\ NonOverlapping(q, OpTokens)
              /\ PlainGet(lastOp.preHeap, lastOp.preRoot, q).t = "ref")
             => PlainGet(heap, parentValue, q) = PlainGet(lastOp.preHeap, lastOp.preRoot, q)
       /\ Len(heap) = Len(lastOp.preHeap) + 1

\* a write through a path of two tokens left a sibling property of the
\* root holding the object it held
C23_Witness ==
    /\ WroteThrough
    /\ Len(OpTokens) = 2
    /\ \E k \in KeyNames :
          /\ k # OpTokens[1]
          /\ PlainGet(lastOp.preHeap, lastOp.preRoot, <<k>>).t = "ref"
          /\ PlainGet(heap, parentValue, <<k>>) = PlainGet(lastOp.preHeap, lastOp.preRoot, <<k>>)

BranchNullish(h, root, toks) ==
    \E n \in 1..(Len(toks) - 1) : IsNullish(PlainGet(h, root, Prefix(toks, n)))

\* C28: a set or update through a path with a branch token that resolves
\* to null or undefined in a non-nullish root throws, makes no container,
\* and leaves the parent's value, every object and every subscriber's last
\* value as they were.
C28_MissingContainerFails ==
    (WroteOver /\ BranchNullish(lastOp.preHeap, lastOp.preRoot, OpTokens))
    => /\ ~lastOp.ok
       /\ parentValue = lastOp.preRoot
       /\ heap = lastOp.preHeap
       /\ lastOp.notified = {}
       /\ ~lastOp.parentNotified

\* an update through a path whose branch token holds null threw a TypeError
\* after it called the function
C28_Witness ==
    /\ lastOp.op = "update"
    /\ WroteOver
    /\ PlainGet(lastOp.preHeap, lastOp.preRoot, Prefix(OpTokens, 1)) = Null
    /\ Len(OpTokens) = 2
    /\ lastOp.err.cls = "TypeError"
    /\ lastOp.calls = 1
    /\ parentValue = lastOp.preRoot


\* the path holds a token that is neither a decimal index nor an identifier
HasBadToken(toks) == \E i \in DOMAIN toks : ~KeyFormatOk(toks[i])

\* C27: when keyed accepted a path that holds a token that is neither a
\* decimal index nor an identifier, every read of the view over a
\* non-nullish root throws, and every set and every update over a
\* non-nullish root throws and leaves the parent's value and every object
\* as they were.
C27_BadTokenNeverSucceeds ==
    /\ \A slot \in Slots :
          (/\ views[slot].st = "live"
           /\ HasBadToken(views[slot].tokens)
           /\ ~IsNullish(parentValue))
          => ~DerivedFn(heap, parentValue, views[slot].tokens).ok
    /\ (WroteOver /\ HasBadToken(OpTokens))
       => /\ ~lastOp.ok
          /\ parentValue = lastOp.preRoot
          /\ heap = lastOp.preHeap


\* the three names that reach the prototype chain
UnsafeNames == {ProtoKey,
                <<"c", "o", "n", "s", "t", "r", "u", "c", "t", "o", "r">>,
                <<"p", "r", "o", "t", "o", "t", "y", "p", "e">>}

\* C30: keyed accepts every path whose tokens are all identifiers or
\* decimal indices and none of which is __proto__, constructor or
\* prototype, and throws for every path with a token that is one of the
\* three names.
C30_OnlyUnsafeRejected ==
    (lastOp.op = "keyed" /\ GetTokens(lastOp.path).ok)
    => LET toks == GetTokens(lastOp.path).tokens IN
       /\ (\A i \in DOMAIN toks : KeyFormatOk(toks[i]) /\ toks[i] \notin UnsafeNames)
          => lastOp.ok
       /\ (\E i \in DOMAIN toks : toks[i] \in UnsafeNames) => ~lastOp.ok


\* C25: whatever calls of getTokens were made before, cached or not, on the
\* same path or on others, whatever the cache dropped and however the clock
\* moved, a call of getTokens returns the tokens, or throws the error, of a
\* call without the cache on the same path.
C25_CacheNotObservable ==
    Called => tokOut = getTokens(EmptyCache, 0, tokKey, FALSE).out

\* a cached call returned the two tokens of an entry that the same call
\* deleted as expired
C25_Witness ==
    /\ Called
    /\ tokCached
    /\ tokOut.ok
    /\ Len(tokOut.tokens) = 2
    /\ tokKey \notin DOMAIN tokenCache
    /\ now > CACHE_TTL

\* C26: the cache never holds more than MAX_CACHE_SIZE entries.
C26_CacheBounded == Cardinality(DOMAIN tokenCache) <= MAX_CACHE_SIZE


\* a value with the objects it reaches written out: what a deep comparison
\* of two roots compares
RECURSIVE Tree(_, _)
Tree(h, x) ==
    IF x.t # "ref" THEN <<x>>
    ELSE LET o == h[x.v] IN
         <<o.kind, o.proto,
           [k \in DOMAIN o.props |-> Tree(h, o.props[k])],
           [i \in DOMAIN o.elems |-> Tree(h, o.elems[i])]>>

\* the path that names the outer path below the inner one: 'a' and 'b' give
\* 'a.b', 'a' and '[0]' give 'a[0]'
JoinPaths(inner, outer) ==
    IF Head(outer) = "[" THEN inner \o outer ELSE inner \o <<".">> \o outer

\* the tokens of keyed(store, joined path)
JoinedTokens == KeyedTokens(JoinPaths(views[1].path, views[2].path)).tokens

\* what the last write gives when it is made through the view with the
\* joined path, over the root before the write
JoinedWrite ==
    IF lastOp.op = "set"
    THEN SetCallback(lastOp.preHeap, lastOp.preRoot, JoinedTokens, lastOp.value)
    ELSE UpdateCallback(lastOp.preHeap, lastOp.preRoot, JoinedTokens, lastOp.fn)

\* C29: the view over a view reads what the view with the joined path
\* reads, and a set or update through it throws exactly when the same write
\* through the view with the joined path throws, and leaves a root that is
\* deeply equal to the one that write leaves.
C29_NestedIsJoined ==
    views[2].st = "live"
    => /\ NestedGet(heap, parentValue, views[1].tokens, views[2].tokens)
             = getNested(heap, parentValue, JoinedTokens)
       /\ WasWrite
          => /\ lastOp.ok = JoinedWrite.ok
             /\ Tree(heap, parentValue) = Tree(JoinedWrite.heap, JoinedWrite.root)

====
